---- MODULE Spec2Model ----
(***************************************************************************)
(* Model of src/main.py: a Telegram bot that forwards tweets to a channel. *)
(* One asyncio event loop runs the update dispatcher (one handler at a     *)
(* time: ApplicationBuilder() is built without concurrent updates) and the *)
(* watch-loop tasks spawned by watch_mode_command.  Every await on the     *)
(* network (Twitter API, Telegram send, asyncio.sleep) is a suspension     *)
(* point: the call is issued in one step and completes in a later one.     *)
(***************************************************************************)
EXTENDS Integers, Sequences, FiniteSets, TLC

\* ---------------------------------------------------------------- bounds
\* A run is explored in one of four scenarios, fixed at the start:
\*   "watch"   the operator only toggles watch mode, and replies to the operator
\*             and the construction of the API client succeed; plain tweets, at
\*             most one per response;
\*   "submit"  the operator only sends /start and text messages; plain tweets;
\*   "render"  one update of any kind from either chat and one poll; tweets and
\*             timelines of every shape;
\*   "mixed"   updates of every kind from one chat and one poll; replies to the
\*             operator and the construction of the API client succeed; plain
\*             tweets.
MaxToggles == 3      \* operator updates received in a "watch" run
MaxPolls == 2        \* get_users_tweets calls issued in a "watch" run
MaxSubmits == 2      \* operator updates received in a "submit" run
MaxMedia == 2        \* attachments of one tweet
MaxTimeline == 3     \* tweets in one get_users_tweets response

\* ------------------------------------------------------- program constants
POLL_INTERVAL == 1200
MAX_RESULTS == 5

TELEGRAM_CHANNEL_ID == "channel"
twitter_username == "user"
TWITTER == "twitter-api"
None == "None"
UserId == "uid"              \* the user_id stored in user_id.json
Chats == {"op1", "op2"}       \* operator chats
Scenarios == {"watch", "submit", "render", "mixed"}
ChatsOf(sc) == IF sc = "render" THEN Chats ELSE {"op1"}
KindsOf(sc) ==
    CASE sc = "watch" -> {"watchmode"}
      [] sc = "submit" -> {"start", "text"}
      [] OTHER -> {"start", "watchmode", "text"}
UpdateBudget(sc) ==
    CASE sc = "watch" -> MaxToggles
      [] sc \in {"submit", "mixed"} -> MaxSubmits
      [] OTHER -> 1
PollBudget(sc) == IF sc = "watch" THEN MaxPolls ELSE 1
\* Whether a send to an operator chat, or the construction of the API client,
\* can fail in the scenario.
Outcomes(sc) == IF sc \in {"watch", "mixed"} THEN {TRUE} ELSE BOOLEAN

\* ------------------------------------------------------------ data values
Ids == {"8", "9"}
Texts == {"gm", ""}
MediaTypes == {"photo", "video"}

\* The media list of an expansion: the i-th attachment has url i.
MediaLists ==
    UNION { { [i \in 1..k |-> [type |-> tys[i], url |-> i]]
              : tys \in [1..k -> MediaTypes] } : k \in 0..MaxMedia }

\* tweet.includes: None, a dict without the "media" key, or one with it.
IncludesSet ==
    { [kind |-> "none", media |-> <<>>], [kind |-> "users", media |-> <<>>] }
    \cup { [kind |-> "media", media |-> ml] : ml \in MediaLists }

\* The part of a tweet object the renderer reads besides the id.
Contents == [text : Texts, includes : IncludesSet]
PlainContents == { c \in Contents : c.text = "gm" /\ c.includes.kind = "none" }
ContentsOf(sc) == IF sc = "render" THEN Contents ELSE PlainContents

TweetOf(id, referenced, c) ==
    [id |-> id, text |-> c.text, referenced_tweets |-> referenced, includes |-> c.includes]

NoTweet ==
    [id |-> "", text |-> "", referenced_tweets |-> FALSE,
     includes |-> [kind |-> "none", media |-> <<>>]]

\* ----------------------------------------------------- TWITTER_URL_REGEX
\* A message is a sequence of tokens; the pattern is
\*   "https://" ("www.")? ("twitter" | "x") ".com/" \w+ "/status/" (\d+)
WordTokens == {"user", "hello"}
IsWord(t) == t \in WordTokens \cup Ids
IsDigits(t) == t \in Ids
NoMatch == "nomatch"

\* Mutant: the pattern written with "https?://".
MatchAt_http_too(m, i) ==
    IF i > Len(m) \/ m[i] \notin {"https://", "http://"} THEN NoMatch
    ELSE LET j == IF i + 1 <= Len(m) /\ m[i + 1] = "www." THEN i + 2 ELSE i + 1
         IN IF /\ j + 4 <= Len(m)
               /\ m[j] \in {"twitter", "x"}
               /\ m[j + 1] = ".com/"
               /\ IsWord(m[j + 2])
               /\ m[j + 3] = "/status/"
               /\ IsDigits(m[j + 4])
            THEN m[j + 4]
            ELSE NoMatch

MatchAt(m, i) ==
    IF i > Len(m) \/ m[i] # "https://" THEN NoMatch
    ELSE LET j == IF i + 1 <= Len(m) /\ m[i + 1] = "www." THEN i + 2 ELSE i + 1
         IN IF /\ j + 4 <= Len(m)
               /\ m[j] \in {"twitter", "x"}
               /\ m[j + 1] = ".com/"
               /\ IsWord(m[j + 2])
               /\ m[j + 3] = "/status/"
               /\ IsDigits(m[j + 4])
            THEN m[j + 4]
            ELSE NoMatch

\* TWITTER_URL_REGEX.search(message): group(1) of the leftmost match.
TWITTER_URL_REGEX_search(m) ==
    LET hits == { i \in 1..Len(m) : MatchAt(m, i) # NoMatch }
    IN IF hits = {} THEN NoMatch
       ELSE MatchAt(m, CHOOSE i \in hits : \A k \in hits : i <= k)

Messages ==
    { <<"https://", "twitter", ".com/", "user", "/status/", "8">>,
      <<"hello", "https://", "www.", "x", ".com/", "user", "/status/", "9">>,
      <<"http://", "twitter", ".com/", "user", "/status/", "8">>,
      <<"https://", "twitter", ".com/", "user", "/status/">> }

Updates ==
    { [kind |-> k, chat |-> c, text |-> <<>>] : k \in {"start", "watchmode"}, c \in Chats }
    \cup { [kind |-> "text", chat |-> c, text |-> m] : c \in Chats, m \in Messages }

UpdatesOf(sc) == { u \in Updates : u.kind \in KindsOf(sc) /\ u.chat \in ChatsOf(sc) }

\* ------------------------------------------------------------------ state
VARIABLES
    scenario,               \* which of the scenarios this run explores
    main_pc,                \* "init" before main() ran initialize_twitter, then "running"
    twitter_api_client,     \* _twitter_api_client: 0 is None, k the k-th client built
    clients_made,           \* number of AsyncClient objects constructed
    twitter_user_id,
    WATCH_MODE_ENABLED,
    watchmode_chat_id,
    handlers,               \* one handler coroutine per update received, in arrival order
    tasks,                  \* the tasks created by asyncio.create_task
    npolls,                 \* get_users_tweets calls issued so far
    session,                \* number of toggles so far
    trace                   \* every external call, in the order issued

vars ==
    <<scenario, main_pc, twitter_api_client, clients_made, twitter_user_id, WATCH_MODE_ENABLED,
      watchmode_chat_id, handlers, tasks, npolls, session, trace>>

Init ==
    /\ scenario \in Scenarios
    /\ main_pc = "init"
    /\ twitter_api_client = 0
    /\ clients_made = 0
    /\ twitter_user_id = None
    /\ WATCH_MODE_ENABLED = FALSE
    /\ watchmode_chat_id = None
    /\ handlers = <<>>
    /\ tasks = <<>>
    /\ npolls = 0
    /\ session = 0
    /\ trace = <<>>

\* ------------------------------------------------------------ call records
Call(op, by, to, arg, text, media, tweet) ==
    [op |-> op, by |-> by, to |-> to, arg |-> arg, text |-> text, media |-> media,
     tweet |-> tweet, status |-> "pending", session |-> session]

ByUpdate(n) == [src |-> "update", n |-> n]
ByTask(t) == [src |-> "task", n |-> t]

\* context.bot.send_message(chat_id=chat, text=text) to an operator chat
OperatorMessage(by, chat, text) ==
    Call("send_message", by, chat, "", text, <<>>, NoTweet)

Complete(k, ok) == [trace EXCEPT ![k].status = IF ok THEN "ok" ELSE "failed"]

\* The awaited call k raised the exception named.
Raised(k, exception) == [trace EXCEPT ![k].status = exception]

\* Mutant: get_twitter_api() without the "if _twitter_api_client" test.
get_twitter_api_no_cache(constructed) ==
    IF constructed THEN [ret |-> clients_made + 1, made |-> clients_made + 1]
    ELSE [ret |-> 0, made |-> clients_made]

\* get_twitter_api(): the cached client, or a new one when construction succeeds
get_twitter_api(constructed) ==
    IF twitter_api_client # 0 THEN [ret |-> twitter_api_client, made |-> clients_made]
    ELSE IF constructed THEN [ret |-> clients_made + 1, made |-> clients_made + 1]
    ELSE [ret |-> 0, made |-> clients_made]

\* ------------------------------------------------------------- the renderer
\* Mutant: the link goes to the account, not to the status.
link_to_source_account(tweet_id) ==
    <<"<a href='", "https://twitter.com/", twitter_username, "'>", "View on X", "</a>">>

link_to_source(tweet_id) ==
    <<"<a href='", "https://twitter.com/", twitter_username, "/status/", tweet_id,
      "'>", "View on X", "</a>">>

formatted_text(tweet) == <<tweet.text, "\n\n">> \o link_to_source(tweet.id)

extract_media(tweet) ==
    IF tweet.includes.kind # "media" THEN <<>>
    ELSE LET photos == SelectSeq(tweet.includes.media, LAMBDA md : md.type = "photo")
         IN [i \in 1..Len(photos) |-> photos[i].url]

\* send_tweet_to_telegram(tweet, context): the one call it issues
send_tweet_to_telegram(tweet, by) ==
    LET media_urls == extract_media(tweet)
    IN IF media_urls = <<>>
       THEN Call("send_message", by, TELEGRAM_CHANNEL_ID, tweet.id,
                 formatted_text(tweet), <<>>, tweet)
       ELSE Call("send_photo", by, TELEGRAM_CHANNEL_ID, tweet.id,
                 formatted_text(tweet), <<media_urls[1]>>, tweet)

\* Mutant: a photo post is sent as a text message and then as a photo.
renderer_sends_text_and_photo(tweet, by) ==
    IF extract_media(tweet) = <<>> THEN <<send_tweet_to_telegram(tweet, by)>>
    ELSE << Call("send_message", by, TELEGRAM_CHANNEL_ID, tweet.id,
                 formatted_text(tweet), <<>>, tweet),
            send_tweet_to_telegram(tweet, by) >>

\* The channel sends of one invocation of send_tweet_to_telegram, in order:
\* each branch of its if/else awaits one send.
renderer_sends(tweet, by) == <<send_tweet_to_telegram(tweet, by)>>

\* ------------------------------------------------------------------- main
initialize_twitter ==
    /\ main_pc = "init"
    /\ \E constructed \in Outcomes(scenario), stored \in {None, UserId} :
         LET api == get_twitter_api(constructed)
         IN /\ twitter_api_client' = api.ret
            /\ clients_made' = api.made
            /\ twitter_user_id' = IF api.ret = 0 THEN twitter_user_id ELSE stored
    /\ main_pc' = "running"
    /\ UNCHANGED <<scenario, WATCH_MODE_ENABLED, watchmode_chat_id, handlers, tasks, npolls,
                   session, trace>>

Finished(h) == h.pc \in {"done", "raised"}
Running(h) == ~Finished(h)

\* Mutant: the application built with concurrent updates.
DispatcherFree_concurrent == TRUE

\* The application awaits each handler before it takes the next update.
DispatcherFree == \A k \in 1..Len(handlers) : ~Running(handlers[k])

\* An operator's update u reaches the dispatcher, which starts its handler as
\* the coroutine number Len(handlers) + 1.
CanDispatch(u, kind) ==
    /\ main_pc = "running"
    /\ Len(handlers) < UpdateBudget(scenario)
    /\ DispatcherFree
    /\ u \in UpdatesOf(scenario)
    /\ u.kind = kind

\* A task made by create_task takes its first step before the event loop
\* resumes any coroutine that waits for the network or for a timer.
Resumes == \A t \in 1..Len(tasks) : tasks[t].pc # "created"

Issue(call) == trace' = Append(trace, call)

NewHandler(u, pc, tweet_id) ==
    handlers' = Append(handlers, [pc |-> pc, upd |-> u, tweet_id |-> tweet_id,
                                  call |-> Len(trace) + 1])

Await(n, pc) == handlers' = [handlers EXCEPT ![n].pc = pc, ![n].call = Len(trace) + 1]

\* ---------------------------------------------------------------- handlers
start(u) ==
    /\ CanDispatch(u, "start")
    /\ Issue(OperatorMessage(ByUpdate(Len(handlers) + 1), u.chat, <<"Send me a valid tweet URL">>))
    /\ NewHandler(u, "final_send", "")
    /\ UNCHANGED <<scenario, main_pc, twitter_api_client, clients_made, twitter_user_id,
                   WATCH_MODE_ENABLED, watchmode_chat_id, tasks, npolls, session>>

StatusText(enabled) == IF enabled THEN "enabled" ELSE "disabled"

\* Mutant: the command sets the flag instead of flipping it.
watch_mode_command_enable_only(u) ==
    /\ CanDispatch(u, "watchmode")
    /\ WATCH_MODE_ENABLED' = TRUE
    /\ watchmode_chat_id' = u.chat
    /\ session' = session + 1
    /\ Issue([OperatorMessage(ByUpdate(Len(handlers) + 1), u.chat,
                              <<"Watch mode is now", StatusText(TRUE)>>)
                EXCEPT !.session = session + 1])
    /\ NewHandler(u, "watchmode_send", "")
    /\ UNCHANGED <<scenario, main_pc, twitter_api_client, clients_made, twitter_user_id,
                   tasks, npolls>>

watch_mode_command(u) ==
    /\ CanDispatch(u, "watchmode")
    /\ WATCH_MODE_ENABLED' = ~WATCH_MODE_ENABLED
    /\ watchmode_chat_id' = u.chat
    /\ session' = session + 1
    /\ Issue([OperatorMessage(ByUpdate(Len(handlers) + 1), u.chat,
                  <<"Watch mode is now", StatusText(~WATCH_MODE_ENABLED)>>)
              EXCEPT !.session = session + 1])
    /\ NewHandler(u, "watchmode_send", "")
    /\ UNCHANGED <<scenario, main_pc, twitter_api_client, clients_made, twitter_user_id, tasks, npolls>>

\* response is what the task's last get_users_tweets call came back with,
\* slept the seconds of asyncio.sleep the task has completed since then, and
\* born the number of toggles when the task was created.
NewTask ==
    [pc |-> "created", call |-> 0, response |-> [kind |-> "none", data |-> <<>>],
     slept |-> 0, born |-> session]

\* After the reply was sent: asyncio.create_task(fetch_and_forward_tweets(context))
watch_mode_command_resume(n) ==
    /\ n \in 1..Len(handlers)
    /\ handlers[n].pc = "watchmode_send"
    /\ Resumes
    /\ \E ok \in Outcomes(scenario) :
         /\ trace' = Complete(handlers[n].call, ok)
         /\ handlers' = [handlers EXCEPT ![n].pc = IF ok THEN "done" ELSE "raised"]
         /\ tasks' = IF ok /\ WATCH_MODE_ENABLED THEN Append(tasks, NewTask) ELSE tasks
    /\ UNCHANGED <<scenario, main_pc, twitter_api_client, clients_made, twitter_user_id,
                   WATCH_MODE_ENABLED, watchmode_chat_id, npolls, session>>

process_tweet_url(u) ==
    /\ CanDispatch(u, "text")
    /\ LET by == ByUpdate(Len(handlers) + 1)
           match == TWITTER_URL_REGEX_search(u.text)
       IN IF match # NoMatch
          THEN /\ Issue(OperatorMessage(by, u.chat, <<"Processing Tweet ID", match>>))
               /\ NewHandler(u, "processing_send", match)
          ELSE /\ Issue(OperatorMessage(by, u.chat, <<"Invalid Twitter URL!">>))
               /\ NewHandler(u, "final_send", "")
    /\ UNCHANGED <<scenario, main_pc, twitter_api_client, clients_made, twitter_user_id,
                   WATCH_MODE_ENABLED, watchmode_chat_id, tasks, npolls, session>>

\* After the "Processing" reply: api = await get_twitter_api(); api.get_tweet(...)
process_tweet_url_get_tweet(n) ==
    /\ n \in 1..Len(handlers)
    /\ handlers[n].pc = "processing_send"
    /\ Resumes
    /\ \E ok \in Outcomes(scenario), constructed \in Outcomes(scenario) :
         LET api == get_twitter_api(constructed)
             sent == Complete(handlers[n].call, ok)
         IN IF ~ok
            THEN /\ trace' = sent
                 /\ handlers' = [handlers EXCEPT ![n].pc = "raised"]
                 /\ UNCHANGED <<twitter_api_client, clients_made>>
            ELSE /\ twitter_api_client' = api.ret
                 /\ clients_made' = api.made
                 /\ IF api.ret = 0
                    THEN /\ trace' = sent       \* None.get_tweet: AttributeError
                         /\ handlers' = [handlers EXCEPT ![n].pc = "raised"]
                    ELSE /\ trace' = Append(sent, Call("get_tweet", ByUpdate(n), TWITTER,
                                                handlers[n].tweet_id, <<>>, <<>>, NoTweet))
                         /\ handlers' = [handlers EXCEPT ![n].pc = "get_tweet",
                                                         ![n].call = Len(trace) + 1]
    /\ UNCHANGED <<scenario, main_pc, twitter_user_id, WATCH_MODE_ENABLED, watchmode_chat_id,
                   tasks, npolls, session>>

\* Mutant: the notice goes to the channel.
rate_limit_notice_to_channel(by, chat) ==
    OperatorMessage(by, TELEGRAM_CHANNEL_ID, <<"Twitter API rate limit hit!">>)

\* except tweepy.errors.TooManyRequests: the notice sent to the operator
rate_limit_notice(by, chat) == OperatorMessage(by, chat, <<"Twitter API rate limit hit!">>)

\* What api.get_tweet(tweet_id) can come back with.
GetTweetOutcomes(tweet_id) ==
    { [kind |-> k, tweet |-> NoTweet] : k \in {"TooManyRequests", "error", "not_found"} }
    \cup { [kind |-> "found", tweet |-> TweetOf(tweet_id, FALSE, c)] : c \in ContentsOf(scenario) }

process_tweet_url_got_tweet(n) ==
    /\ n \in 1..Len(handlers)
    /\ handlers[n].pc = "get_tweet"
    /\ Resumes
    /\ \E out \in GetTweetOutcomes(handlers[n].tweet_id) :
         LET k == handlers[n].call
             chat == handlers[n].upd.chat
             by == ByUpdate(n)
         IN CASE out.kind = "TooManyRequests" ->
                   /\ trace' = Append(Raised(k, "TooManyRequests"), rate_limit_notice(by, chat))
                   /\ Await(n, "final_send")
              [] out.kind = "error" ->
                   /\ trace' = Complete(k, FALSE)
                   /\ handlers' = [handlers EXCEPT ![n].pc = "raised"]
              [] out.kind = "not_found" ->
                   /\ trace' = Append(Complete(k, TRUE),
                                  OperatorMessage(by, chat, <<"Tweet not found!">>))
                   /\ Await(n, "final_send")
              [] out.kind = "found" ->
                   LET sends == renderer_sends(out.tweet, by)
                   IN /\ trace' = Complete(k, TRUE) \o sends
                      /\ handlers' = [handlers EXCEPT ![n].pc = "final_send",
                                                      ![n].call = Len(trace) + Len(sends)]
    /\ UNCHANGED <<scenario, main_pc, twitter_api_client, clients_made, twitter_user_id,
                   WATCH_MODE_ENABLED, watchmode_chat_id, tasks, npolls, session>>

\* The last await of start and of process_tweet_url returns or raises.
handler_returns(n) ==
    /\ n \in 1..Len(handlers)
    /\ handlers[n].pc = "final_send"
    /\ Resumes
    /\ \E ok \in BOOLEAN :
         /\ trace' = Complete(handlers[n].call, ok)
         /\ handlers' = [handlers EXCEPT ![n].pc = IF ok THEN "done" ELSE "raised"]
    /\ UNCHANGED <<scenario, main_pc, twitter_api_client, clients_made, twitter_user_id,
                   WATCH_MODE_ENABLED, watchmode_chat_id, tasks, npolls, session>>

\* --------------------------------------------------------------- watch loop
\* Newest-first responses of get_users_tweets: distinct ids, newest first.
WatchIds == {"7", "8", "9"}
Age(id) == CASE id = "9" -> 1 [] id = "8" -> 2 [] OTHER -> 3

Min(a, b) == IF a < b THEN a ELSE b

Timelines(longest) ==
    { tl \in UNION { [1..k -> [id : WatchIds, referenced_tweets : BOOLEAN]]
                     : k \in 0..Min(longest, MAX_RESULTS) } :
        \A i \in 1..Len(tl), j \in 1..Len(tl) : i < j => Age(tl[i].id) < Age(tl[j].id) }

TimelinesOf(sc) ==
    IF sc = "render" THEN Timelines(MaxTimeline) ELSE Timelines(1)

\* for tweet in response.data: skip the ones with "referenced_tweets", stop
\* at the first one without.  Index of the tweet forwarded, 0 when none is.
\* Mutant: the loop without the "referenced_tweets" test.
first_valid_no_skip(data, i) == IF i > Len(data) THEN 0 ELSE i

RECURSIVE first_valid(_, _)
first_valid(data, i) ==
    IF i > Len(data) THEN 0
    ELSE IF data[i].referenced_tweets THEN first_valid(data, i + 1)
    ELSE i

\* while WATCH_MODE_ENABLED: response = await api.get_users_tweets(id=twitter_user_id, ...)
loop_top(t, tr, slept) ==
    IF WATCH_MODE_ENABLED
    THEN /\ npolls < PollBudget(scenario)
         /\ trace' = Append(tr, Call("get_users_tweets", ByTask(t), TWITTER, twitter_user_id,
                                     <<>>, <<>>, NoTweet))
         /\ tasks' = [tasks EXCEPT ![t].pc = "get_users_tweets", ![t].call = Len(tr) + 1,
                                   ![t].slept = slept]
         /\ npolls' = npolls + 1
    ELSE /\ trace' = tr
         /\ tasks' = [tasks EXCEPT ![t].pc = "returned", ![t].slept = slept]
         /\ UNCHANGED npolls

\* Mutant: the task without "if not api: return".
fetch_and_forward_tweets_unchecked(t) ==
    /\ t \in 1..Len(tasks)
    /\ tasks[t].pc = "created"
    /\ \E constructed \in Outcomes(scenario) :
         LET api == get_twitter_api(constructed)
         IN /\ twitter_api_client' = api.ret
            /\ clients_made' = api.made
            /\ loop_top(t, trace, 0)
    /\ UNCHANGED <<scenario, main_pc, twitter_user_id, WATCH_MODE_ENABLED, watchmode_chat_id,
                   handlers, session>>

\* The task starts running: api = await get_twitter_api(); if not api: return
fetch_and_forward_tweets(t) ==
    /\ t \in 1..Len(tasks)
    /\ tasks[t].pc = "created"
    /\ \E constructed \in Outcomes(scenario) :
         LET api == get_twitter_api(constructed)
         IN /\ twitter_api_client' = api.ret
            /\ clients_made' = api.made
            /\ IF api.ret = 0
               THEN /\ tasks' = [tasks EXCEPT ![t].pc = "returned_no_api"]
                    /\ UNCHANGED <<trace, npolls>>
               ELSE loop_top(t, trace, 0)
    /\ UNCHANGED <<scenario, main_pc, twitter_user_id, WATCH_MODE_ENABLED, watchmode_chat_id,
                   handlers, session>>

\* What api.get_users_tweets(id=user_id) can come back with; the API has no
\* timeline for the id None.
GetUsersTweetsOutcomes(user_id) ==
    { [kind |-> k, data |-> <<>>] : k \in {"TooManyRequests", "error"} }
    \cup { [kind |-> "response", data |-> tl] : tl \in IF user_id = None THEN {} ELSE TimelinesOf(scenario) }

watch_loop_response(t) ==
    /\ t \in 1..Len(tasks)
    /\ tasks[t].pc = "get_users_tweets"
    /\ Resumes
    /\ \E out \in GetUsersTweetsOutcomes(trace[tasks[t].call].arg) :
         LET k == tasks[t].call
             sel == first_valid(out.data, 1)
         IN CASE out.kind = "TooManyRequests" ->
                   /\ trace' = Complete(k, FALSE)
                   /\ tasks' = [tasks EXCEPT ![t].pc = "rate_limit_sleep", ![t].response = out,
                                             ![t].slept = 0]
              [] out.kind = "error" ->
                   /\ trace' = Complete(k, FALSE)
                   /\ tasks' = [tasks EXCEPT ![t].pc = "crashed", ![t].response = out,
                                             ![t].slept = 0]
              [] out.kind = "response" /\ sel = 0 ->
                   /\ trace' = Complete(k, TRUE)
                   /\ tasks' = [tasks EXCEPT ![t].pc = "sleep", ![t].response = out,
                                             ![t].slept = 0]
              [] out.kind = "response" /\ sel # 0 ->
                   \E c \in ContentsOf(scenario) :
                     LET sends == renderer_sends(TweetOf(out.data[sel].id, FALSE, c), ByTask(t))
                     IN /\ trace' = Complete(k, TRUE) \o sends
                        /\ tasks' = [tasks EXCEPT ![t].pc = "send",
                                                  ![t].call = Len(trace) + Len(sends),
                                                  ![t].response = out, ![t].slept = 0]
    /\ UNCHANGED <<scenario, main_pc, twitter_api_client, clients_made, twitter_user_id,
                   WATCH_MODE_ENABLED, watchmode_chat_id, handlers, npolls, session>>

\* send_tweet_to_telegram returns, or its send raises out of the loop.
watch_loop_sent(t) ==
    /\ t \in 1..Len(tasks)
    /\ tasks[t].pc = "send"
    /\ Resumes
    /\ \E ok \in BOOLEAN :
         /\ trace' = Complete(tasks[t].call, ok)
         /\ tasks' = [tasks EXCEPT ![t].pc = IF ok THEN "sleep" ELSE "crashed"]
    /\ UNCHANGED <<scenario, main_pc, twitter_api_client, clients_made, twitter_user_id,
                   WATCH_MODE_ENABLED, watchmode_chat_id, handlers, npolls, session>>

\* Mutant: the except branch without its sleep.
rate_limit_sleep_skipped(t) ==
    /\ t \in 1..Len(tasks)
    /\ tasks[t].pc = "rate_limit_sleep"
    /\ Resumes
    /\ tasks' = [tasks EXCEPT ![t].pc = "sleep"]
    /\ UNCHANGED <<scenario, main_pc, twitter_api_client, clients_made, twitter_user_id,
                   WATCH_MODE_ENABLED, watchmode_chat_id, handlers, npolls, session, trace>>

\* except TooManyRequests: await asyncio.sleep(POLL_INTERVAL) is over
rate_limit_sleep_over(t) ==
    /\ t \in 1..Len(tasks)
    /\ tasks[t].pc = "rate_limit_sleep"
    /\ Resumes
    /\ tasks' = [tasks EXCEPT ![t].pc = "sleep", ![t].slept = @ + POLL_INTERVAL]
    /\ UNCHANGED <<scenario, main_pc, twitter_api_client, clients_made, twitter_user_id,
                   WATCH_MODE_ENABLED, watchmode_chat_id, handlers, npolls, session, trace>>

\* await asyncio.sleep(POLL_INTERVAL) at the end of the loop body is over
sleep_over(t) ==
    /\ t \in 1..Len(tasks)
    /\ tasks[t].pc = "sleep"
    /\ Resumes
    /\ loop_top(t, trace, tasks[t].slept + POLL_INTERVAL)
    /\ UNCHANGED <<scenario, main_pc, twitter_api_client, clients_made, twitter_user_id,
                   WATCH_MODE_ENABLED, watchmode_chat_id, handlers, session>>

\* ------------------------------------------------------------ specification
UpdateIds == 1..Len(handlers)
TaskIds == 1..Len(tasks)

Next ==
    \/ initialize_twitter
    \/ \E u \in Updates : start(u)
    \/ \E u \in Updates : watch_mode_command(u)
    \/ \E n \in UpdateIds : watch_mode_command_resume(n)
    \/ \E u \in Updates : process_tweet_url(u)
    \/ \E n \in UpdateIds : process_tweet_url_get_tweet(n)
    \/ \E n \in UpdateIds : process_tweet_url_got_tweet(n)
    \/ \E n \in UpdateIds : handler_returns(n)
    \/ \E t \in TaskIds : fetch_and_forward_tweets(t)
    \/ \E t \in TaskIds : watch_loop_response(t)
    \/ \E t \in TaskIds : watch_loop_sent(t)
    \/ \E t \in TaskIds : rate_limit_sleep_over(t)
    \/ \E t \in TaskIds : sleep_over(t)

Spec == Init /\ [][Next]_vars

\* ------------------------------------------------------- reading the trace
Calls == 1..Len(trace)

\* A call of the renderer shows as the channel send it issues.
IsRender(e) == e.to = TELEGRAM_CHANNEL_ID
IsPoll(e) == e.op = "get_users_tweets"

CallsBy(by) == { k \in Calls : trace[k].by = by }
RendersBy(by) == { k \in CallsBy(by) : IsRender(trace[k]) }

\* A task whose coroutine has started and has neither returned nor raised.
ActiveLoop(task) == task.pc \in {"get_users_tweets", "send", "rate_limit_sleep", "sleep"}
ActiveTasks == { t \in TaskIds : ActiveLoop(tasks[t]) }

\* The renders a task made since its last get_users_tweets call.
LastPoll(t) ==
    LET polls == { k \in CallsBy(ByTask(t)) : IsPoll(trace[k]) }
    IN CHOOSE k \in polls : \A q \in polls : q <= k
RendersOfIteration(t) == { k \in RendersBy(ByTask(t)) : k > LastPoll(t) }

\* ------------------------------------------------------------------ claims

\* C1: within one continuously-enabled watch session (no toggle in between)
\* a watch-loop task invokes the renderer at most once for a post identifier.
C1_RenderedOncePerSession ==
    \A t \in TaskIds : \A i \in RendersBy(ByTask(t)), j \in RendersBy(ByTask(t)) :
        (i < j /\ trace[i].session = trace[j].session) => trace[i].arg # trace[j].arg

\* C2: at most one watch-loop task is active in the process.
C2_AtMostOneWatchLoop == Cardinality(ActiveTasks) <= 1

\* C3: after a watch-loop iteration has gone through the response, the loop
\* has rendered the first tweet of the response that is not a reply, and
\* only that one; with no such tweet it has rendered nothing.
IsFirstNonReply(data, i) ==
    /\ i \in 1..Len(data)
    /\ ~data[i].referenced_tweets
    /\ \A j \in 1..(i - 1) : data[j].referenced_tweets

C3_RendersFirstNonReply ==
    \A t \in TaskIds :
        (tasks[t].response.kind = "response" /\ tasks[t].pc # "get_users_tweets") =>
            LET data == tasks[t].response.data
                made == RendersOfIteration(t)
            IN IF \E i \in 1..Len(data) : ~data[i].referenced_tweets
               THEN /\ Cardinality(made) = 1
                    /\ \A k \in made : \E i \in 1..Len(data) :
                         IsFirstNonReply(data, i) /\ trace[k].tweet.id = data[i].id
               ELSE made = {}

\* C3 witness: the newest tweet was a reply and the loop rendered the next one.
C3_Witness ==
    \E t \in TaskIds :
        /\ tasks[t].pc = "send"
        /\ Len(tasks[t].response.data) >= 2
        /\ tasks[t].response.data[1].referenced_tweets
        /\ ~tasks[t].response.data[2].referenced_tweets
        /\ trace[tasks[t].call].tweet.id = tasks[t].response.data[2].id

\* C4: a failed channel send in a watch-loop iteration leaves the task alive.
C4_SendFailureKeepsLoopAlive ==
    \A t \in TaskIds :
        (tasks[t].call \in Calls /\ IsRender(trace[tasks[t].call])
            /\ trace[tasks[t].call].status = "failed") => ActiveLoop(tasks[t])

\* C5: while twitter_user_id is unresolved no watch-loop task is started and
\* no get_users_tweets call is issued.
C5_NoWatchLoopWhenUnresolved ==
    twitter_user_id = None =>
        /\ tasks = <<>>
        /\ \A k \in Calls : ~IsPoll(trace[k])

\* C6: for a post with an empty attachment list one invocation of the
\* renderer issues exactly one text send to the channel, no photo or grouped
\* send, and the body holds the post's text followed by a link that holds
\* the post's identifier.
NoAttachments(tweet) == tweet.includes.kind # "media" \/ tweet.includes.media = <<>>

TextThenLinkWithId(body, text, id) ==
    \E a \in 1..Len(body) :
        /\ body[a] = "<a href='"
        /\ \E p \in 1..(a - 1) : body[p] = text
        /\ \E c \in (a + 1)..Len(body) :
             /\ body[c] = "</a>"
             /\ \E b \in (a + 1)..(c - 1) : body[b] = id

\* The channel sends of the renderer invocation that issued call k.
SendsOfInvocation(k) ==
    IF trace[k].by.src = "update" THEN RendersBy(trace[k].by)
    ELSE { q \in RendersBy(trace[k].by) :
             \A m \in CallsBy(trace[k].by) : IsPoll(trace[m]) => (m < q <=> m < k) }

C6_TextOnlyPost ==
    \A k \in Calls :
        (IsRender(trace[k]) /\ NoAttachments(trace[k].tweet)) =>
            /\ trace[k].op = "send_message"
            /\ trace[k].media = <<>>
            /\ TextThenLinkWithId(trace[k].text, trace[k].tweet.text, trace[k].tweet.id)
            /\ SendsOfInvocation(k) = {k}

C6_Witness ==
    \E k \in Calls :
        /\ IsRender(trace[k])
        /\ trace[k].tweet.includes.kind = "media"
        /\ trace[k].tweet.includes.media = <<>>
        /\ trace[k].tweet.text = "gm"
        /\ trace[k].status = "ok"

\* C7: for a post with two or more attachments one invocation of the
\* renderer issues one grouped-media send with all the attachments, in the
\* source's order.
C7_GroupedSend ==
    \A k \in Calls :
        (IsRender(trace[k]) /\ Len(trace[k].tweet.includes.media) >= 2) =>
            /\ trace[k].op = "send_media_group"
            /\ Len(trace[k].media) = Len(trace[k].tweet.includes.media)
            /\ \A i \in 1..Len(trace[k].media) :
                 trace[k].media[i] = trace[k].tweet.includes.media[i].url

\* C8: when the photo of a post cannot be delivered the renderer falls back
\* to a text-only send of the same caption.
C8_PhotoFailureFallsBack ==
    \A k \in Calls :
        (IsRender(trace[k]) /\ trace[k].op = "send_photo" /\ trace[k].status = "failed") =>
            \E q \in RendersBy(trace[k].by) :
                /\ q > k
                /\ trace[q].op = "send_message"
                /\ trace[q].text = trace[k].text

\* C9: manual submissions are rendered in arrival order: the channel send of
\* an earlier submission is over before the channel send of a later one.
C9_SubmissionsInOrder ==
    \A a \in UpdateIds, b \in UpdateIds :
        a < b =>
            \A i \in RendersBy(ByUpdate(a)), j \in RendersBy(ByUpdate(b)) :
                i < j /\ trace[i].status # "pending"

C9_Witness ==
    \E a \in UpdateIds, b \in UpdateIds :
        /\ a < b
        /\ RendersBy(ByUpdate(a)) # {}
        /\ RendersBy(ByUpdate(b)) # {}
        /\ handlers[a].tweet_id # handlers[b].tweet_id

\* C10: for a text that does not match the post-URL pattern process_tweet_url
\* sends the operator one corrective message and makes no other call.
NotPostUrls ==
    { <<"http://", "twitter", ".com/", "user", "/status/", "8">>,
      <<"https://", "twitter", ".com/", "user", "/status/">> }

C10_InvalidInputOnlyReplies ==
    \A n \in UpdateIds :
        (handlers[n].upd.kind = "text" /\ handlers[n].upd.text \in NotPostUrls) =>
            /\ Cardinality(CallsBy(ByUpdate(n))) = 1
            /\ \A k \in CallsBy(ByUpdate(n)) :
                 /\ trace[k].op = "send_message"
                 /\ trace[k].to = handlers[n].upd.chat
                 /\ trace[k].text = <<"Invalid Twitter URL!">>

C10_Witness ==
    \E n \in UpdateIds :
        /\ handlers[n].upd.kind = "text"
        /\ handlers[n].upd.text \in NotPostUrls
        /\ handlers[n].pc = "done"

\* C11: a renderer invocation whose send succeeded has issued exactly that
\* one message to the channel (a text, a photo or a grouped message): no
\* second, partial or duplicate message belongs to the same invocation.
C11_OneMessagePerInvocation ==
    \A k \in Calls :
        (IsRender(trace[k]) /\ trace[k].status = "ok") =>
            /\ trace[k].op \in {"send_message", "send_photo", "send_media_group"}
            /\ SendsOfInvocation(k) = {k}

C11_Witness ==
    \E k \in Calls :
        /\ IsRender(trace[k])
        /\ trace[k].op = "send_photo"
        /\ trace[k].status = "ok"

C13_DisabledTaskFetchesNoMore ==
    \A t \in TaskIds : \A k \in CallsBy(ByTask(t)) :
        IsPoll(trace[k]) => trace[k].session = tasks[t].born

\* C14: every toggle that enabled watch mode has spawned one polling task by
\* the time its handler is over, no other toggle spawns one, and a task waits
\* a poll interval only after it has attempted a fetch.
EnabledBy(n) ==
    /\ handlers[n].upd.kind = "watchmode"
    /\ trace[handlers[n].call].text = <<"Watch mode is now", StatusText(TRUE)>>

C14_OneTaskPerEnable ==
    /\ Len(tasks) = Cardinality({ n \in UpdateIds : EnabledBy(n) /\ Finished(handlers[n]) })
    /\ \A t \in TaskIds :
         tasks[t].pc \in {"rate_limit_sleep", "sleep"} =>
             \E k \in CallsBy(ByTask(t)) : IsPoll(trace[k])

\* C15: at most one manual submission is between the start of its get_tweet
\* call and the end of its channel send.
InFlight(n) ==
    /\ handlers[n].upd.kind = "text"
    /\ \/ handlers[n].pc = "get_tweet"
       \/ handlers[n].pc = "final_send" /\ IsRender(trace[handlers[n].call])

C15_OneSubmissionInFlight == Cardinality({ n \in UpdateIds : InFlight(n) }) <= 1

C15_Witness ==
    \E a \in UpdateIds, b \in UpdateIds :
        /\ a < b
        /\ Finished(handlers[a])
        /\ \E k \in RendersBy(ByUpdate(a)) : trace[k].status = "ok"
        /\ InFlight(b)
        /\ IsRender(trace[handlers[b].call])

\* C16: a step that starts a watch_mode_command handler flips
\* WATCH_MODE_ENABLED and sets watchmode_chat_id to the chat of the update;
\* every other step (start, process_tweet_url, the renderer, the watch loop,
\* and the rest of watch_mode_command) leaves both unchanged.
C16_OnlyToggleChangesWatchState ==
    [][ IF Len(handlers') > Len(handlers) /\ handlers'[Len(handlers')].upd.kind = "watchmode"
        THEN /\ WATCH_MODE_ENABLED' = ~WATCH_MODE_ENABLED
             /\ watchmode_chat_id' = handlers'[Len(handlers')].upd.chat
        ELSE UNCHANGED <<WATCH_MODE_ENABLED, watchmode_chat_id>> ]_vars

C16_Witness ==
    /\ WATCH_MODE_ENABLED
    /\ watchmode_chat_id = "op1"
    /\ \E n \in UpdateIds : \E k \in RendersBy(ByUpdate(n)) : trace[k].status = "ok"
    /\ \E t \in TaskIds : tasks[t].pc = "sleep"

\* C17: when get_tweet raised TooManyRequests for a manual submission, the
\* handler's only later call is the rate-limit notice to the operator's chat:
\* it sends nothing to the channel, calls get_tweet once, and no toggle
\* happens between its first and its last call.
RateLimited(n) ==
    { k \in CallsBy(ByUpdate(n)) :
        trace[k].op = "get_tweet" /\ trace[k].status = "TooManyRequests" }

C17_RateLimitedSubmission ==
    \A n \in UpdateIds : \A k \in RateLimited(n) :
        /\ RendersBy(ByUpdate(n)) = {}
        /\ Cardinality({ q \in CallsBy(ByUpdate(n)) : trace[q].op = "get_tweet" }) = 1
        /\ Cardinality({ q \in CallsBy(ByUpdate(n)) : q > k }) = 1
        /\ \A q \in CallsBy(ByUpdate(n)) :
             /\ trace[q].session = trace[k].session
             /\ q > k => /\ trace[q].op = "send_message"
                         /\ trace[q].to = handlers[n].upd.chat
                         /\ trace[q].text = <<"Twitter API rate limit hit!">>

C17_Witness ==
    /\ WATCH_MODE_ENABLED
    /\ \E n \in UpdateIds :
         /\ RateLimited(n) # {}
         /\ handlers[n].pc = "done"
         /\ trace[handlers[n].call].status = "ok"

\* C18: a task that starts while no API client can be obtained returns at
\* once: the step issues no call and leaves WATCH_MODE_ENABLED as it is.
C18_NoClientTaskReturns ==
    [][ \A t \in TaskIds :
          (tasks[t].pc = "created" /\ tasks'[t].pc # "created" /\ twitter_api_client' = 0) =>
              /\ tasks'[t].pc = "returned_no_api"
              /\ trace' = trace
              /\ WATCH_MODE_ENABLED' = WATCH_MODE_ENABLED ]_vars

\* C18 witness: watch mode is enabled and no watch-loop task is active.
C18_Witness ==
    /\ WATCH_MODE_ENABLED
    /\ ActiveTasks = {}
    /\ \E t \in TaskIds : tasks[t].pc = "returned_no_api"
    /\ \A n \in UpdateIds : Finished(handlers[n])

\* C19: at most one API client is ever constructed, and once
\* _twitter_api_client holds one, every later step (get_twitter_api calls
\* included) leaves that handle in place and constructs nothing.
C19_ClientCreatedOnce ==
    /\ [](clients_made <= 1 /\ twitter_api_client = clients_made)
    /\ [][twitter_api_client # 0 => UNCHANGED <<twitter_api_client, clients_made>>]_vars

C19_Witness ==
    /\ clients_made = 1
    /\ \E k \in Calls : trace[k].op = "get_tweet"
    /\ \E k \in Calls : IsPoll(trace[k])

====
